---- MODULE Spec2Model ----
(***************************************************************************)
(* Model of src/index.js: SimpleLogo.extractLogo (candidate collection,    *)
(* download loop, provider fallback, top-level handler) and                *)
(* batchExtractLogos.  Strings are TLA+ strings; the JavaScript string     *)
(* methods are computed character by character.                            *)
(***************************************************************************)
EXTENDS Integers, Sequences, FiniteSets, TLC

(***************************************************************************)
(* JavaScript string methods                                               *)
(***************************************************************************)
\* String.prototype.startsWith
startsWith(s, p) == Len(s) >= Len(p) /\ SubSeq(s, 1, Len(p)) = p

\* String.prototype.indexOf, 1-based, 0 when absent
indexOf(s, p) ==
  LET hits == {i \in 1..(Len(s) - Len(p) + 1) : SubSeq(s, i, i + Len(p) - 1) = p}
  IN IF hits = {} THEN 0 ELSE CHOOSE i \in hits : \A j \in hits : i <= j

\* String.prototype.includes
includes(s, p) == indexOf(s, p) # 0

lowerOf(c) ==
  CASE c = "A" -> "a" [] c = "B" -> "b" [] c = "C" -> "c" [] c = "D" -> "d"
    [] c = "E" -> "e" [] c = "F" -> "f" [] c = "G" -> "g" [] c = "H" -> "h"
    [] c = "I" -> "i" [] c = "J" -> "j" [] c = "K" -> "k" [] c = "L" -> "l"
    [] c = "M" -> "m" [] c = "N" -> "n" [] c = "O" -> "o" [] c = "P" -> "p"
    [] c = "Q" -> "q" [] c = "R" -> "r" [] c = "S" -> "s" [] c = "T" -> "t"
    [] c = "U" -> "u" [] c = "V" -> "v" [] c = "W" -> "w" [] c = "X" -> "x"
    [] c = "Y" -> "y" [] c = "Z" -> "z" [] OTHER -> c

\* String.prototype.toLowerCase
RECURSIVE toLowerCase(_)
toLowerCase(s) ==
  IF Len(s) = 0 THEN s
  ELSE lowerOf(SubSeq(s, 1, 1)) \o toLowerCase(SubSeq(s, 2, Len(s)))

\* String.prototype.replace with a string pattern: first occurrence only
replaceFirst(s, pat, rep) ==
  LET i == indexOf(s, pat)
  IN IF i = 0 THEN s
     ELSE SubSeq(s, 1, i - 1) \o rep \o SubSeq(s, i + Len(pat), Len(s))

(***************************************************************************)
(* new URL(u): the scheme, the authority and the rest of an absolute URL.  *)
(***************************************************************************)
\* does new URL(u) succeed: a scheme, "://" and a non-empty host
urlParses(u) ==
  LET i == indexOf(u, "://")
  IN /\ i > 1
     /\ ~includes(SubSeq(u, 1, i - 1), " ")
     /\ Len(u) > i + 2
     /\ SubSeq(u, i + 3, i + 3) # "/"

\* URL.protocol, with the trailing colon
urlProtocol(u) == toLowerCase(SubSeq(u, 1, indexOf(u, "://")))

urlAfterScheme(u) == SubSeq(u, indexOf(u, "://") + 3, Len(u))

\* URL.hostname
urlHostname(u) ==
  LET r == urlAfterScheme(u)
      i == indexOf(r, "/")
  IN toLowerCase(IF i = 0 THEN r ELSE SubSeq(r, 1, i - 1))

\* path, query and fragment; "/" when the URL has none
urlPath(u) ==
  LET r == urlAfterScheme(u)
      i == indexOf(r, "/")
  IN IF i = 0 THEN "/" ELSE SubSeq(r, i, Len(r))

\* URL.origin
urlOrigin(u) == urlProtocol(u) \o "//" \o urlHostname(u)

(***************************************************************************)
(* JavaScript undefined and null (never equal to a string of the program)  *)
(***************************************************************************)
Undefined == "<undefined>"
Null == "<null>"

\* JavaScript falsiness of a string-or-missing value
falsy(v) == v = Undefined \/ v = Null \/ v = ""

(***************************************************************************)
(* Pure helpers of SimpleLogo                                              *)
(***************************************************************************)
normalizeUrl(url, baseUrl) ==
  IF falsy(url) THEN Null
  ELSE IF startsWith(url, "//") THEN "https:" \o url
  ELSE IF startsWith(url, "/") THEN baseUrl \o url
  ELSE IF startsWith(url, "http") THEN url
  ELSE baseUrl \o "/" \o url

imageExtensions ==
  <<".png", ".jpg", ".jpeg", ".svg", ".gif", ".webp", ".ico", ".bmp", ".tiff">>

isValidImageUrl(url) ==
  \/ \E k \in 1..Len(imageExtensions) : includes(toLowerCase(url), imageExtensions[k])
  \/ includes(url, "logo")
  \/ includes(url, "icon")

typeMap ==
  [t \in {"image/svg+xml", "image/png", "image/jpeg", "image/jpg", "image/gif",
          "image/webp", "image/x-icon", "image/vnd.microsoft.icon",
          "image/bmp", "image/tiff"} |->
     CASE t = "image/svg+xml" -> "svg"
       [] t = "image/png" -> "png"
       [] t = "image/jpeg" -> "jpg"
       [] t = "image/jpg" -> "jpg"
       [] t = "image/gif" -> "gif"
       [] t = "image/webp" -> "webp"
       [] t = "image/x-icon" -> "ico"
       [] t = "image/vnd.microsoft.icon" -> "ico"
       [] t = "image/bmp" -> "bmp"
       [] t = "image/tiff" -> "tiff"]

detectImageFormat(url, contentType) ==
  IF ~falsy(contentType) /\ toLowerCase(contentType) \in DOMAIN typeMap
  THEN typeMap[toLowerCase(contentType)]
  ELSE LET url_lower == toLowerCase(url)
       IN IF includes(url_lower, ".svg") THEN "svg"
          ELSE IF includes(url_lower, ".png") THEN "png"
          ELSE IF includes(url_lower, ".jpg") \/ includes(url_lower, ".jpeg") THEN "jpg"
          ELSE IF includes(url_lower, ".gif") THEN "gif"
          ELSE IF includes(url_lower, ".webp") THEN "webp"
          ELSE IF includes(url_lower, ".ico") THEN "ico"
          ELSE IF includes(url_lower, ".bmp") THEN "bmp"
          ELSE IF includes(url_lower, ".tiff") \/ includes(url_lower, ".tif") THEN "tiff"
          ELSE "png"

shouldOptimize(format) == format \in {"png", "jpg", "jpeg", "webp"}

\* the swapped URL, or Null when the scheme is neither or the URL does not parse
trySwapProtocol(inputUrl) ==
  IF ~urlParses(inputUrl) THEN Null
  ELSE IF urlProtocol(inputUrl) = "https:"
       THEN "http://" \o urlHostname(inputUrl) \o urlPath(inputUrl)
  ELSE IF urlProtocol(inputUrl) = "http:"
       THEN "https://" \o urlHostname(inputUrl) \o urlPath(inputUrl)
  ELSE Null

\* the origin downloadWithFallback derives from its referer (the referer itself
\* when it does not parse)
originReferer(referer) == IF urlParses(referer) THEN urlOrigin(referer) ELSE referer

\* hostname.replace("www.", "")
domainOf(url) == replaceFirst(urlHostname(url), "www.", "")

\* path.join(outputDir, filename)
pathJoin(dir, name) ==
  (IF startsWith(dir, "./") THEN SubSeq(dir, 3, Len(dir)) ELSE dir) \o "/" \o name

commonPaths ==
  <<"/favicon.svg", "/logo.svg", "/favicon.ico", "/favicon.png", "/favicon.jpg",
    "/favicon.jpeg", "/favicon.gif", "/favicon.webp", "/logo.png",
    "/apple-touch-icon.png", "/apple-touch-icon-precomposed.png",
    "/android-chrome-192x192.png", "/android-chrome-512x512.png",
    "/mstile-150x150.png">>

providerCandidates(domain) ==
  << [url |-> "https://www.google.com/s2/favicons?sz=256&domain_url=https://" \o domain,
      fmt |-> "png", source |-> "google-favicons"],
     [url |-> "https://icons.duckduckgo.com/ip3/" \o domain \o ".ico",
      fmt |-> "ico", source |-> "duckduckgo-favicons"] >>

\* `${domain}-logo${index === 1 ? "" : "-" + index}.${format}`
logoFilename(domain, index, format) ==
  domain \o "-logo" \o (IF index = 1 THEN "" ELSE "-" \o ToString(index)) \o "." \o format

fallbackFilename(domain, fmt) == domain \o "-logo-fallback." \o fmt

(***************************************************************************)
(* The candidate accumulator of extractLogo: the closure's seen set and    *)
(* candidates array, as one value.                                         *)
(***************************************************************************)
emptyAcc == [seen |-> {}, candidates |-> <<>>]

\* addCandidate without the seen.has(normalized) test
addCandidate_noSeenTest(acc, src, priority, source, sizes, baseUrl) ==
  IF src = Undefined THEN acc
  ELSE IF falsy(src) THEN acc
  ELSE LET normalized == normalizeUrl(src, baseUrl)
       IN IF normalized = Null \/ ~isValidImageUrl(normalized) THEN acc
          ELSE [seen |-> acc.seen \cup {normalized},
                candidates |-> Append(acc.candidates,
                   [url |-> normalized, priority |-> priority,
                    source |-> source, sizes |-> sizes])]

\* addCandidate that gives a URL seen before the lower of the two priorities
addCandidate_lowestPriorityWins(acc, src, priority, source, sizes, baseUrl) ==
  IF src = Undefined THEN acc
  ELSE IF falsy(src) THEN acc
  ELSE LET normalized == normalizeUrl(src, baseUrl)
           entry == [url |-> normalized, priority |-> priority,
                     source |-> source, sizes |-> sizes]
       IN IF normalized = Null \/ ~isValidImageUrl(normalized) THEN acc
          ELSE IF normalized \in acc.seen
          THEN [acc EXCEPT !.candidates =
                  [k \in 1..Len(@) |->
                     IF @[k].url = normalized /\ priority < @[k].priority
                     THEN entry ELSE @[k]]]
          ELSE [seen |-> acc.seen \cup {normalized},
                candidates |-> Append(acc.candidates, entry)]

addCandidate(acc, src, priority, source, sizes, baseUrl) ==
  IF src = Undefined THEN acc
  ELSE IF falsy(src) THEN acc
  ELSE LET normalized == normalizeUrl(src, baseUrl)
       IN IF normalized = Null \/ ~isValidImageUrl(normalized) THEN acc
          ELSE IF normalized \in acc.seen THEN acc
          ELSE [seen |-> acc.seen \cup {normalized},
                candidates |-> Append(acc.candidates,
                   [url |-> normalized, priority |-> priority,
                    source |-> source, sizes |-> sizes])]

\* items.each(el => addCandidate(el.src, priority, source, {sizes: el.sizes}))
RECURSIVE addEach(_, _, _, _, _)
addEach(acc, items, priority, source, baseUrl) ==
  IF items = <<>> THEN acc
  ELSE addEach(addCandidate(acc, Head(items).src, priority, source,
                            Head(items).sizes, baseUrl),
               Tail(items), priority, source, baseUrl)

\* Array.prototype.sort((a, b) => a.priority - b.priority): stable; the
\* entry is inserted behind every entry whose priority is not larger
RECURSIVE insertByPriority(_, _)
insertByPriority(sorted, c) ==
  IF sorted = <<>> THEN <<c>>
  ELSE IF sorted[Len(sorted)].priority <= c.priority THEN Append(sorted, c)
  ELSE Append(insertByPriority(SubSeq(sorted, 1, Len(sorted) - 1), c),
              sorted[Len(sorted)])

RECURSIVE sortByPriority(_)
sortByPriority(list) ==
  IF list = <<>> THEN <<>>
  ELSE insertByPriority(sortByPriority(SubSeq(list, 1, Len(list) - 1)),
                        list[Len(list)])

(***************************************************************************)
(* Bounds and inputs                                                       *)
(***************************************************************************)
\* most URLs in one batchExtractLogos call
MaxUrls == 2
\* most candidate downloads the remote side answers when one site is extracted
MaxSaved == 2
\* most candidate downloads the remote side answers over a batch of sites
MaxBatchSaved == 1
\* most candidate downloads the remote side answers to each of two
\* concurrent calls
MaxRaceSaved == 1

\* site references handed to extractLogo
Sites == {"https://www.a.co/p", "http://b.io", "ftp://c.org", "not a url"}

\* the site two concurrent calls are made for
RaceSites == {"https://www.a.co/p"}

outputDir == "./logos"

\* references handed to isValidImageUrl and to addCandidate on their own:
\* an origin or none, a name with or without a keyword in either case, an
\* extension in either case or none
TestUrls ==
  {o \o n \o e : o \in {"https://cdn.x/", "/", "HTTPS://CDN.X/"},
                 n \in {"logo", "LOGO", "Logo", "icon", "Icon", "ICON", "brand", "BRAND"},
                 e \in {"", ".png", ".PNG", ".Svg", ".txt", "?v=2"}}

\* content-type headers a server may answer with (Undefined: no header)
ContentTypes == {Undefined, "Image/WebP"}

\* an <img> element: its src, whether it lies inside <header>, inside an
\* element with class or id "logo", and whether its alt text contains "logo"
Img(src, inHeader, inLogo, altLogo) ==
  [src |-> src, sizes |-> Undefined, inHeader |-> inHeader,
   inLogo |-> inLogo, altLogo |-> altLogo]

\* a <meta content=...> or <link href=... sizes=...> element of <head>
Ref(src, sizes) == [src |-> src, sizes |-> sizes]

\* parsed documents a page fetch may return
Pages ==
  { [metas |-> <<Ref("//cdn.x/og.png", Undefined), Ref("/about", Undefined),
                 Ref("", Undefined)>>,
     links |-> <<Ref("/favicon.ico", "32x32"), Ref(Undefined, Undefined)>>,
     imgs |-> <<Img("/img/logo.png", TRUE, TRUE, FALSE),
                Img("img/logo.png", FALSE, FALSE, TRUE)>>,
     manifest |-> "/site.webmanifest"],
    [metas |-> <<Ref("https://cdn.x/card.jpg", Undefined)>>,
     links |-> <<Ref("brand.svg", Undefined)>>,
     imgs |-> <<Img("https://cdn.x/mark.gif", FALSE, TRUE, TRUE)>>,
     manifest |-> Undefined] }

\* bodies a manifest fetch may return: whether data.icons is an array, and
\* the array
ManifestBodies ==
  { [isArray |-> TRUE,
     icons |-> <<Ref("/img/logo.png", "192x192"), Ref("/icon-512.png", "512x512"),
                 Ref("", Undefined)>>],
    [isArray |-> FALSE, icons |-> <<>>] }

NoDoc == [metas |-> <<>>, links |-> <<>>, imgs |-> <<>>, manifest |-> Undefined]
NoResp == [contentType |-> Undefined, attempt |-> 0]
\* no downloadWithFallback call of the run has failed yet
NoFail == [reqs |-> <<>>, thrown |-> 0]
NoRet == [success |-> FALSE, pending |-> TRUE]

(***************************************************************************)
(* State                                                                   *)
(***************************************************************************)
VARIABLES
  urls,      \* batchExtractLogos: the input list, as far as the loop has read it
  unread,    \* batchExtractLogos: how many more URLs the input list may hold
  results,   \* batchExtractLogos: the results array
  bpc,       \* batchExtractLogos: control point
  run,       \* the activation record of the extractLogo call in progress
  okLeft,    \* candidate downloads the remote side will still answer
  other,     \* a second extractLogo call of the same caller, suspended at an await
  okOther,   \* candidate downloads the remote side will still answer to that call
  cur,       \* which of the two calls run holds: 1 or 2
  finished,  \* the calls that have returned, with the artifacts they returned
  disk       \* the files of the output directory: whose bytes, and who wrote

vars == <<urls, unread, results, bpc, run, okLeft, other, okOther, cur, finished, disk>>

\* extractLogo before its first statement
freshRun ==
  [pc |-> "idle", url |-> Undefined, baseUrl |-> Undefined, domain |-> Undefined,
   htmlAvailable |-> FALSE, doc |-> NoDoc, acc |-> emptyAcc,
   foundLogos |-> <<>>, ci |-> 0, index |-> 1, saved |-> <<>>,
   pass |-> 1, pi |-> 0, saved2 |-> <<>>,
   attempt |-> 0, resp |-> NoResp, format |-> Undefined, filename |-> Undefined,
   error |-> Undefined, ret |-> NoRet,
   \* history of the run: the requests of the fetch call in progress, how
   \* the page fetch ended, the candidates handed to downloadWithFallback, the
   \* positions in foundLogos of the candidates written to disk, the provider
   \* calls and the provider icons written to disk, the files written
   reqs |-> <<>>, pageOutcome |-> "none", attempted |-> <<>>, okLog |-> <<>>,
   provLog |-> <<>>, provOk |-> <<>>, written |-> {},
   \* how fs.mkdir of the handler ended
   handlerDir |-> "none",
   \* the latest downloadWithFallback call that threw: its requests and the
   \* attempt whose error it threw
   lastFail |-> NoFail,
   \* the fetchHtmlWithFallback call, if it threw: its requests and the attempt
   \* whose error it threw
   pageFail |-> NoFail,
   \* whether sharp failed on the candidate of the current iteration
   sharpError |-> FALSE,
   \* the HTTP requests of the call that are sent and not yet settled
   inflight |-> 0]

(***************************************************************************)
(* extractLogo: straight-line pieces between two awaits, as functions of   *)
(* the activation record                                                   *)
(***************************************************************************)
\* step 2 of extractLogo up to the manifest lookup: meta tags, link icons,
\* header region, logo sections, images whose alt text contains "logo"
collectHead(acc, doc, baseUrl) ==
  LET inHeaderSel(e) == e.inHeader /\ (e.inLogo \/ e.altLogo)
      inLogoSel(e) == e.inLogo
      altLogoSel(e) == e.altLogo
      a1 == addEach(acc, doc.metas, 1, "meta", baseUrl)
      a2 == addEach(a1, doc.links, 2, "link", baseUrl)
      a3 == addEach(a2, SelectSeq(doc.imgs, inHeaderSel), 6, "header", baseUrl)
      a4 == addEach(a3, SelectSeq(doc.imgs, inLogoSel), 7, "logo-section", baseUrl)
  IN addEach(a4, SelectSeq(doc.imgs, altLogoSel), 8, "img[alt*=logo]", baseUrl)

\* mResp.data.icons.forEach(icon => addCandidate(icon.src, 3, "manifest", ...))
collectManifest(acc, body, baseUrl) ==
  IF ~body.isArray THEN acc
  ELSE addEach(acc, body.icons, 3, "manifest", baseUrl)

\* collectCommon with a loop that stops one path early
collectCommon_stopsEarly(acc, baseUrl) ==
  addEach(acc, [k \in 1..(Len(commonPaths) - 1) |->
                  Ref(baseUrl \o commonPaths[k], Undefined)],
          10, "common-path", baseUrl)

\* commonPaths.forEach(p => addCandidate(baseUrl + p, 10, "common-path"))
collectCommon(acc, baseUrl) ==
  addEach(acc, [k \in 1..Len(commonPaths) |-> Ref(baseUrl \o commonPaths[k], Undefined)],
          10, "common-path", baseUrl)

\* finalCandidates without the sort
finalCandidates_unsorted(acc) == acc.candidates

\* foundLogos: the accumulated candidates, sorted by priority
finalCandidates(acc) == sortByPriority(acc.candidates)

\* the record extractLogo returns when something was saved
successRecord(domain, saved) ==
  [success |-> TRUE, domain |-> domain, count |-> Len(saved), logos |-> saved,
   logoUrl |-> saved[1].url, localPath |-> saved[1].localPath,
   filename |-> saved[1].filename, format |-> saved[1].format,
   source |-> saved[1].source, contentType |-> saved[1].contentType]

returnSuccess(r, saved) ==
  [r EXCEPT !.ret = successRecord(r.domain, saved), !.pc = "returned"]

\* the final return of the handler; new URL(url) in it throws on a reference
\* that does not parse, and nothing catches that
returnFailure(r) ==
  IF urlParses(r.url)
  THEN [r EXCEPT !.ret = [success |-> FALSE, error |-> r.error,
                          domain |-> domainOf(r.url)],
                 !.pc = "returned"]
  ELSE [r EXCEPT !.pc = "thrown"]

\* a throw inside the outer try block
enterCatch(r, message) == [r EXCEPT !.error = message, !.pc = "catch"]

\* the resource and the referer of the downloadWithFallback call in progress
dlUrl(r) ==
  IF r.pc = "download" THEN r.foundLogos[r.ci].url
  ELSE providerCandidates(r.domain)[r.pi].url

dlReferer(r) ==
  IF r.pc = "download" THEN r.url
  ELSE IF r.pass = 1 THEN r.baseUrl
  ELSE "https://" \o r.domain

\* a page fetch error that ends the run in the top-level handler
pageFetchFailed_aborts(r) ==
  enterCatch([r EXCEPT !.pageOutcome = "failed", !.inflight = @ - 1,
                       !.pageFail = [reqs |-> r.reqs, thrown |-> 1]],
             "Request failed with status code 403")

\* fetchHtmlWithFallback threw err, the error of its first request; the catch
\* of extractLogo sets htmlAvailable = false and the run goes on
pageFetchFailed(r) ==
  [r EXCEPT !.htmlAvailable = FALSE, !.pc = "common", !.pageOutcome = "failed",
            !.inflight = @ - 1,
            !.pageFail = [reqs |-> r.reqs, thrown |-> 1]]

\* downloadWithFallback throwing the error of the last request it made
thrownAttempt_last(r) == r.attempt

\* the attempt whose error downloadWithFallback throws: throw err2
thrownAttempt(r) == 2

\* the call downloadWithFallback(prov.url, ...) for provider k
beginProvider(r, k) ==
  LET prov == providerCandidates(r.domain)[k]
      q == [r EXCEPT !.pi = k, !.pc = "provDownload", !.attempt = 1,
                     !.inflight = @ + 1]
  IN [q EXCEPT !.reqs = <<[url |-> prov.url, referer |-> dlReferer(q)]>>,
               !.provLog = Append(@, [pass |-> r.pass, source |-> prov.source])]

\* the end of a loop body: its block-scoped constants (the response, format,
\* filename) go out of scope
leaveBody(r) ==
  [r EXCEPT !.resp = NoResp, !.format = Undefined, !.filename = Undefined,
            !.reqs = <<>>, !.attempt = 0]

\* afterProviders that reports failure as soon as the first pass saved nothing
afterProviders_noSecondPass(r) ==
  IF r.pass = 1 /\ Len(r.saved) = 0
  THEN returnFailure([r EXCEPT !.error = "Failed to download any logos"])
  ELSE IF r.pass = 1 THEN returnSuccess(r, r.saved)
  ELSE IF Len(r.saved2) > 0 THEN returnSuccess(r, r.saved2)
  ELSE returnFailure(r)

\* afterProviders with a handler that reports failure whatever it saved
afterProviders_handlerAlwaysFails(r) ==
  IF r.pass = 1
  THEN IF Len(r.saved) = 0
       THEN enterCatch(r, "Failed to download any logos")
       ELSE returnSuccess(r, r.saved)
  ELSE returnFailure(r)

\* after the last provider of a pass
afterProviders(r) ==
  IF r.pass = 1
  THEN IF Len(r.saved) = 0
       THEN enterCatch(r, "Failed to download any logos")
       ELSE returnSuccess(r, r.saved)
  ELSE IF Len(r.saved2) > 0
       THEN returnSuccess(r, r.saved2)
       ELSE returnFailure(r)

\* afterProvider with a loop that ends after its first iteration
afterProvider_onlyFirst(r) == afterProviders(leaveBody(r))

\* the end of one iteration of a provider loop
afterProvider(r) ==
  IF r.pi < Len(providerCandidates(r.domain))
  THEN beginProvider(leaveBody(r), r.pi + 1)
  ELSE afterProviders(leaveBody(r))

\* a loop that starts the downloads of all remaining candidates at once
beginCandidate_allAtOnce(r, k) ==
  [r EXCEPT !.ci = k, !.pc = "download", !.attempt = 1, !.sharpError = FALSE,
            !.inflight = @ + (Len(r.foundLogos) - k + 1),
            !.reqs = <<[url |-> r.foundLogos[k].url, referer |-> r.url]>>,
            !.attempted = Append(@, r.foundLogos[k].url)]

\* the call downloadWithFallback(candidate.url, pageUrl) for candidate k
beginCandidate(r, k) ==
  [r EXCEPT !.ci = k, !.pc = "download", !.attempt = 1, !.sharpError = FALSE,
            !.inflight = @ + 1,
            !.reqs = <<[url |-> r.foundLogos[k].url, referer |-> r.url]>>,
            !.attempted = Append(@, r.foundLogos[k].url)]

\* afterLoop without the saved.length === 0 test
afterLoop_alwaysProviders(r) == beginProvider(r, 1)

\* after the primary download loop: step 5, or the return
afterLoop(r) ==
  IF Len(r.saved) = 0 THEN beginProvider(r, 1) ELSE returnSuccess(r, r.saved)

\* afterCandidate with a loop that ends at the first saved artifact
afterCandidate_stopsAtFirstSave(r) ==
  IF r.ci < Len(r.foundLogos) /\ Len(r.saved) = 0
  THEN beginCandidate(leaveBody(r), r.ci + 1)
  ELSE afterLoop(leaveBody(r))

\* the end of one iteration of the primary download loop
afterCandidate(r) ==
  IF r.ci < Len(r.foundLogos) THEN beginCandidate(leaveBody(r), r.ci + 1)
  ELSE afterLoop(leaveBody(r))

\* a codec failure that skips the candidate
codecFailed_skips(r) == afterCandidate([r EXCEPT !.sharpError = TRUE])

\* catch (sharpError): fs.writeFile(filepath, imgResponse.data) is called
codecFailed(r) == [r EXCEPT !.sharpError = TRUE, !.pc = "write"]

\* recordSaved without index += 1
recordSaved_keepsIndex(r) ==
  LET c == r.foundLogos[r.ci]
  IN [r EXCEPT !.saved = Append(@, [url |-> c.url,
                                    localPath |-> pathJoin(outputDir, r.filename),
                                    filename |-> r.filename, format |-> r.format,
                                    source |-> c.source,
                                    contentType |-> r.resp.contentType]),
               !.written = @ \cup {r.filename}]

\* saved.push({...}); index += 1 of the primary loop
recordSaved(r) ==
  LET c == r.foundLogos[r.ci]
  IN [r EXCEPT !.saved = Append(@, [url |-> c.url,
                                    localPath |-> pathJoin(outputDir, r.filename),
                                    filename |-> r.filename, format |-> r.format,
                                    source |-> c.source,
                                    contentType |-> r.resp.contentType]),
               !.index = @ + 1,
               !.written = @ \cup {r.filename}]

\* recordProvider with one saved list for the try block and the handler
recordProvider_oneList(r) ==
  LET prov == providerCandidates(r.domain)[r.pi]
      entry == [url |-> prov.url, localPath |-> pathJoin(outputDir, r.filename),
                filename |-> r.filename, format |-> prov.fmt,
                source |-> prov.source, contentType |-> r.resp.contentType]
  IN [r EXCEPT !.written = @ \cup {r.filename}, !.saved = Append(@, entry)]

\* saved.push({...}) of a provider loop
recordProvider(r) ==
  LET prov == providerCandidates(r.domain)[r.pi]
      entry == [url |-> prov.url, localPath |-> pathJoin(outputDir, r.filename),
                filename |-> r.filename, format |-> prov.fmt,
                source |-> prov.source, contentType |-> r.resp.contentType]
      q == [r EXCEPT !.written = @ \cup {r.filename}]
  IN IF r.pass = 1 THEN [q EXCEPT !.saved = Append(@, entry)]
     ELSE [q EXCEPT !.saved2 = Append(@, entry)]

\* no second call
goneRun == [freshRun EXCEPT !.pc = "gone"]

\* fs.writeFile or sharp's toFile with the 'wx' flag: an existing file stays
diskWrite_keepsExisting(d, path, by) ==
  IF path \in DOMAIN d
  THEN [d EXCEPT ![path] = [bytes |-> @.bytes, writers |-> Append(@.writers, by)]]
  ELSE (path :> [bytes |-> by, writers |-> <<by>>]) @@ d

\* fs.writeFile(filepath, data) and sharp's toFile(filepath): the file is
\* created, or replaced when it exists
diskWrite(d, path, by) ==
  IF path \in DOMAIN d
  THEN [d EXCEPT ![path] = [bytes |-> by, writers |-> Append(@.writers, by)]]
  ELSE (path :> [bytes |-> by, writers |-> <<by>>]) @@ d

(***************************************************************************)
(* Initial state                                                           *)
(***************************************************************************)
\* one site is extracted
Init ==
  /\ urls = <<>>
  /\ unread = 1
  /\ results = <<>>
  /\ bpc = "call"
  /\ run = freshRun
  /\ okLeft = MaxSaved
  /\ other = goneRun
  /\ okOther = 0
  /\ cur = 1
  /\ finished = <<>>
  /\ disk = <<>>

\* a batch of sites is extracted
InitBatch ==
  /\ urls = <<>>
  /\ unread = MaxUrls
  /\ results = <<>>
  /\ bpc = "call"
  /\ run = freshRun
  /\ okLeft = MaxBatchSaved
  /\ other = goneRun
  /\ okOther = 0
  /\ cur = 1
  /\ finished = <<>>
  /\ disk = <<>>

\* two calls extractLogo(u, outputDir) for one site, started by one caller
\* without awaiting the first (Promise.all); the first runs until it awaits
InitRace ==
  /\ urls = <<>>
  /\ unread = 0
  /\ results = <<>>
  /\ bpc = "race"
  /\ \E u \in RaceSites :
       /\ run = [freshRun EXCEPT !.url = u, !.pc = "mkdir"]
       /\ other = [freshRun EXCEPT !.url = u, !.pc = "mkdir"]
  /\ okLeft = MaxRaceSaved
  /\ okOther = MaxRaceSaved
  /\ cur = 1
  /\ finished = <<>>
  /\ disk = <<>>

\* SimpleLogo.isValidImageUrl(u), then addCandidate(u, 1, "meta") of a fresh
\* run over https://www.a.co/p, called on their own
InitValid ==
  /\ \E u \in TestUrls : urls = <<u>>
  /\ unread = 0
  /\ results = <<>>
  /\ bpc = "isValidImageUrl"
  /\ run = [freshRun EXCEPT !.baseUrl = "https://www.a.co"]
  /\ okLeft = 0
  /\ other = goneRun
  /\ okOther = 0
  /\ cur = 1
  /\ finished = <<>>
  /\ disk = <<>>

batchUnchanged == UNCHANGED <<urls, unread, results, bpc>>
callsUnchanged == UNCHANGED <<other, okOther, cur, finished>>
envUnchanged == UNCHANGED <<okLeft, disk, other, okOther, cur, finished>>
\* the step writes the file of the current iteration
fileWritten ==
  /\ disk' = diskWrite(disk, pathJoin(outputDir, run.filename), cur)
  /\ UNCHANGED okLeft
  /\ callsUnchanged

(***************************************************************************)
(* extractLogo, one action per completion of an awaited operation          *)
(***************************************************************************)
\* fs.mkdir resolves; the URL is parsed and the page request goes out
MkdirOk ==
  /\ run.pc = "mkdir"
  /\ run' = IF urlParses(run.url)
            THEN [run EXCEPT !.baseUrl = urlOrigin(run.url),
                             !.domain = domainOf(run.url),
                             !.pc = "pageFetch", !.attempt = 1,
                             !.inflight = @ + 1,
                             !.reqs = <<[url |-> run.url,
                                         referer |-> urlOrigin(run.url)]>>]
            ELSE enterCatch(run, "Invalid URL")
  /\ batchUnchanged
  /\ envUnchanged

\* fs.mkdir rejects
MkdirFail ==
  /\ run.pc = "mkdir"
  /\ run' = enterCatch(run, "EACCES: permission denied, mkdir")
  /\ batchUnchanged
  /\ envUnchanged

\* fetchHtmlWithFallback: a request is answered; cheerio.load
PageFetchOk ==
  /\ run.pc = "pageFetch"
  /\ \E d \in Pages :
       run' = [run EXCEPT !.doc = d, !.htmlAvailable = TRUE, !.pc = "collect",
                          !.pageOutcome = "ok", !.inflight = @ - 1]
  /\ batchUnchanged
  /\ envUnchanged

\* fetchHtmlWithFallback: a request fails; one retry with the scheme swapped,
\* then the error reaches extractLogo, which goes on without markup
PageFetchFail ==
  /\ run.pc = "pageFetch"
  /\ run' = IF run.attempt = 1 /\ trySwapProtocol(run.url) # Null
            THEN [run EXCEPT !.attempt = 2,
                             !.reqs = Append(@, [url |-> trySwapProtocol(run.url),
                                                 referer |-> urlOrigin(run.url)])]
            ELSE pageFetchFailed(run)
  /\ batchUnchanged
  /\ envUnchanged

\* step 2: candidates of the document; the manifest request goes out if the
\* document names a manifest
Collect ==
  /\ run.pc = "collect"
  /\ run' = [run EXCEPT !.acc = collectHead(run.acc, run.doc, run.baseUrl),
                        !.pc = IF falsy(run.doc.manifest) THEN "common" ELSE "manifest",
                        !.inflight = IF falsy(run.doc.manifest) THEN @ ELSE @ + 1,
                        !.reqs = IF falsy(run.doc.manifest) THEN <<>>
                                 ELSE <<[url |-> normalizeUrl(run.doc.manifest, run.baseUrl),
                                         referer |-> run.url]>>]
  /\ batchUnchanged
  /\ envUnchanged

\* the manifest request is answered
ManifestOk ==
  /\ run.pc = "manifest"
  /\ \E body \in ManifestBodies :
       run' = [run EXCEPT !.acc = collectManifest(run.acc, body, run.baseUrl),
                          !.pc = "common", !.inflight = @ - 1]
  /\ batchUnchanged
  /\ envUnchanged

\* the manifest request fails; the error is swallowed
ManifestFail ==
  /\ run.pc = "manifest"
  /\ run' = [run EXCEPT !.pc = "common", !.inflight = @ - 1]
  /\ batchUnchanged
  /\ envUnchanged

\* step 3, the sort, and the first iteration of the download loop
Common ==
  /\ run.pc = "common"
  /\ LET acc2 == collectCommon(run.acc, run.baseUrl)
         r == [run EXCEPT !.acc = acc2,
                          !.foundLogos = finalCandidates(acc2)]
     IN run' = IF Len(r.foundLogos) > 0 THEN beginCandidate(r, 1) ELSE afterLoop(r)
  /\ batchUnchanged
  /\ envUnchanged

\* downloadWithFallback: the request of the current attempt is answered
DlOk ==
  /\ run.pc \in {"download", "provDownload"}
  /\ run.pc = "download" => okLeft > 0
  /\ okLeft' = IF run.pc = "download" THEN okLeft - 1 ELSE okLeft
  /\ \E ct \in ContentTypes :
       LET r == [run EXCEPT !.resp = [contentType |-> ct, attempt |-> run.attempt],
                            !.inflight = @ - 1]
       IN run' =
            IF run.pc = "download"
            THEN LET format == detectImageFormat(run.foundLogos[run.ci].url, ct)
                 IN [r EXCEPT !.format = format,
                              !.filename = logoFilename(run.domain, run.index, format),
                              !.pc = IF format = "svg" THEN "write"
                                     ELSE IF shouldOptimize(format) THEN "codec"
                                     ELSE "write"]
            ELSE LET prov == providerCandidates(run.domain)[run.pi]
                 IN [r EXCEPT !.format = prov.fmt,
                              !.filename = fallbackFilename(run.domain, prov.fmt),
                              !.pc = "provWrite"]
  /\ batchUnchanged
  /\ UNCHANGED disk
  /\ callsUnchanged

\* downloadWithFallback: the request of the current attempt fails
DlFail ==
  /\ run.pc \in {"download", "provDownload"}
  /\ LET swapped == trySwapProtocol(dlUrl(run))
         thrown == [run EXCEPT !.lastFail = [reqs |-> run.reqs,
                                             thrown |-> thrownAttempt(run)],
                               !.inflight = @ - 1]
         giveUp == IF run.pc = "download" THEN afterCandidate(thrown)
                   ELSE afterProvider(thrown)
     IN run' =
          IF run.attempt = 1
          THEN [run EXCEPT !.attempt = 2,
                           !.reqs = Append(@, [url |-> dlUrl(run),
                                               referer |-> originReferer(dlReferer(run))])]
          ELSE IF run.attempt = 2 /\ swapped # Null
          THEN [run EXCEPT !.attempt = 3,
                           !.reqs = Append(@, [url |-> swapped,
                                               referer |-> originReferer(dlReferer(run))])]
          ELSE giveUp
  /\ batchUnchanged
  /\ envUnchanged

\* sharp decodes, resizes and writes the re-encoded image
CodecOk ==
  /\ run.pc = "codec"
  /\ run' = afterCandidate(recordSaved([run EXCEPT !.okLog = Append(@, run.ci)]))
  /\ batchUnchanged
  /\ fileWritten

\* sharp fails; the downloaded bytes are written instead
CodecFail ==
  /\ run.pc = "codec"
  /\ run' = codecFailed(run)
  /\ batchUnchanged
  /\ envUnchanged

\* fs.writeFile of a candidate resolves
WriteOk ==
  /\ run.pc = "write"
  /\ run' = afterCandidate(recordSaved([run EXCEPT !.okLog = Append(@, run.ci)]))
  /\ batchUnchanged
  /\ fileWritten

\* fs.writeFile of a candidate rejects; the candidate is skipped
WriteFail ==
  /\ run.pc = "write"
  /\ run' = afterCandidate(run)
  /\ batchUnchanged
  /\ envUnchanged

\* fs.writeFile of a provider icon resolves
ProvWriteOk ==
  /\ run.pc = "provWrite"
  /\ run' = afterProvider(recordProvider(
               [run EXCEPT !.provOk = Append(@, [pass |-> run.pass,
                              source |-> providerCandidates(run.domain)[run.pi].source])]))
  /\ batchUnchanged
  /\ fileWritten

\* fs.writeFile of a provider icon rejects
ProvWriteFail ==
  /\ run.pc = "provWrite"
  /\ run' = afterProvider(run)
  /\ batchUnchanged
  /\ envUnchanged

\* the top-level catch: the URL is parsed again and fs.mkdir is called again
Catch ==
  /\ run.pc = "catch"
  /\ run' = IF urlParses(run.url)
            THEN [run EXCEPT !.pc = "handlerMkdir", !.pass = 2]
            ELSE returnFailure(run)
  /\ batchUnchanged
  /\ envUnchanged

\* fs.mkdir of the handler resolves; the second provider pass starts
HandlerMkdirOk ==
  /\ run.pc = "handlerMkdir"
  /\ run' = beginProvider([run EXCEPT !.handlerDir = "ok"], 1)
  /\ batchUnchanged
  /\ envUnchanged

\* fs.mkdir of the handler rejects; the inner catch swallows it
HandlerMkdirFail ==
  /\ run.pc = "handlerMkdir"
  /\ run' = returnFailure([run EXCEPT !.handlerDir = "failed"])
  /\ batchUnchanged
  /\ envUnchanged

(***************************************************************************)
(* batchExtractLogos                                                       *)
(***************************************************************************)
\* the fields of a result that batchExtractLogos reads
summaryOf(ret) ==
  IF ret.success
  THEN [success |-> TRUE, domain |-> ret.domain, count |-> ret.count]
  ELSE [success |-> FALSE, domain |-> ret.domain, error |-> ret.error]

\* for (const url of urls): SimpleLogo.extractLogo(url, outputDir) is called
BatchCall ==
  /\ bpc = "call"
  /\ unread > 0
  /\ \E u \in Sites :
       /\ urls' = Append(urls, u)
       /\ run' = [freshRun EXCEPT !.url = u, !.pc = "mkdir"]
  /\ unread' = unread - 1
  /\ bpc' = "await"
  /\ UNCHANGED results
  /\ envUnchanged

\* extractLogo resolved: results.push(result), then the one second pause
BatchResume ==
  /\ bpc = "await"
  /\ run.pc = "returned"
  /\ results' = Append(results, summaryOf(run.ret))
  /\ bpc' = "delay"
  /\ run' = freshRun
  /\ UNCHANGED <<urls, unread>>
  /\ envUnchanged

\* extractLogo rejected: the catch block builds a failure record, and its
\* new URL(url) throws again on a reference that does not parse
BatchCatch ==
  /\ bpc = "await"
  /\ run.pc = "thrown"
  /\ IF urlParses(run.url)
     THEN /\ results' = Append(results, [success |-> FALSE, domain |-> urlHostname(run.url),
                                         error |-> "Invalid URL"])
          /\ bpc' = "delay"
     ELSE /\ results' = results
          /\ bpc' = "rejected"
  /\ run' = freshRun
  /\ UNCHANGED <<urls, unread>>
  /\ envUnchanged

\* the pause is over: next iteration
BatchDelay ==
  /\ bpc = "delay"
  /\ bpc' = "call"
  /\ UNCHANGED <<urls, unread, results, run>>
  /\ envUnchanged

\* the input list has no further URL: return results
BatchReturn ==
  /\ bpc = "call"
  /\ bpc' = "done"
  /\ UNCHANGED <<urls, unread, results, run>>
  /\ envUnchanged

(***************************************************************************)
(* Two concurrent extractLogo calls                                        *)
(***************************************************************************)
\* what a call hands back to its caller, as far as the files are concerned:
\* the domain and the localPath of every entry of result.logos
outcomeOf(r, id) ==
  [id |-> id, domain |-> r.domain,
   paths |-> IF r.pc = "returned" /\ r.ret.success
             THEN [k \in 1..Len(r.ret.logos) |-> r.ret.logos[k].localPath]
             ELSE <<>>]

\* the call in run is suspended at the await of a file operation of its
\* download loop and the event loop resumes the other call. The two calls
\* share nothing but the files of the output directory, and the loop writes
\* no file a provider pass writes: a switch at any other await leads to no
\* state of the loop's files that these switches do not lead to.
Switch ==
  /\ bpc = "race"
  /\ run.pc \in {"codec", "write"}
  /\ other.pc # "gone"
  /\ run' = other
  /\ other' = run
  /\ okLeft' = okOther
  /\ okOther' = okLeft
  /\ cur' = 3 - cur
  /\ UNCHANGED <<finished, disk>>
  /\ batchUnchanged

\* the call in run has returned or thrown; the other call goes on
CallEnds ==
  /\ bpc = "race"
  /\ run.pc \in {"returned", "thrown"}
  /\ finished' = Append(finished, outcomeOf(run, cur))
  /\ run' = other
  /\ other' = goneRun
  /\ okLeft' = okOther
  /\ okOther' = 0
  /\ cur' = 3 - cur
  /\ UNCHANGED disk
  /\ batchUnchanged

(***************************************************************************)
(* isValidImageUrl and addCandidate on their own                           *)
(***************************************************************************)
\* isValidImageUrl(u) returns
IsValidReturns ==
  /\ bpc = "isValidImageUrl"
  /\ results' = <<isValidImageUrl(urls[1])>>
  /\ bpc' = "addCandidate"
  /\ UNCHANGED <<urls, unread, run>>
  /\ envUnchanged

\* addCandidate(u, 1, "meta") returns
AddCandidateReturns ==
  /\ bpc = "addCandidate"
  /\ run' = [run EXCEPT !.acc = addCandidate(run.acc, urls[1], 1, "meta",
                                              Undefined, run.baseUrl)]
  /\ bpc' = "added"
  /\ UNCHANGED <<urls, unread, results>>
  /\ envUnchanged

Next ==
  \/ BatchCall \/ BatchResume \/ BatchCatch \/ BatchDelay \/ BatchReturn
  \/ MkdirOk \/ MkdirFail
  \/ PageFetchOk \/ PageFetchFail
  \/ Collect \/ ManifestOk \/ ManifestFail \/ Common
  \/ DlOk \/ DlFail
  \/ CodecOk \/ CodecFail \/ WriteOk \/ WriteFail
  \/ ProvWriteOk \/ ProvWriteFail
  \/ Catch \/ HandlerMkdirOk \/ HandlerMkdirFail

Spec == Init /\ [][Next]_vars

SpecBatch == InitBatch /\ [][Next]_vars

\* two concurrent calls for a site whose page cannot be fetched
NextRace ==
  \/ MkdirOk \/ MkdirFail
  \/ PageFetchFail \/ Common
  \/ DlOk \/ DlFail
  \/ CodecOk \/ CodecFail \/ WriteOk \/ WriteFail
  \/ ProvWriteOk \/ ProvWriteFail
  \/ Catch \/ HandlerMkdirOk \/ HandlerMkdirFail
  \/ Switch \/ CallEnds

SpecRace == InitRace /\ [][NextRace]_vars

\* the URL test and the accumulator on their own
NextValid == IsValidReturns \/ AddCandidateReturns

SpecValid == InitValid /\ [][NextValid]_vars

(***************************************************************************)
(* Properties                                                              *)
(***************************************************************************)
providerSources == {"google-favicons", "duckduckgo-favicons"}

\* the artifacts the primary download loop recorded
primarySaved(r) == SelectSeq(r.saved, LAMBDA a : a.source \notin providerSources)

\* the artifacts recorded in this run, by the loop or by a provider pass
allSaved(r) == r.saved \o r.saved2

\* C1: the returned record has success = true exactly when at least one
\* artifact was saved, by the primary loop or by a provider pass; success =
\* false is returned only when nothing at all was saved.
C1_SuccessIffSaved ==
  run.pc = "returned" =>
    /\ run.ret.success <=> Len(allSaved(run)) > 0
    /\ ~run.ret.success => run.written = {} /\ run.okLog = <<>> /\ run.provOk = <<>>

\* a run that saved nothing in the loop and in the first provider pass and
\* returns success through the second provider pass
C1_Witness ==
  /\ run.pc = "returned"
  /\ run.ret.success
  /\ run.saved = <<>>
  /\ Len(run.saved2) > 0

\* C2: extractLogo never raises to its caller, whatever the site reference:
\* it completes by returning a record, a terminal failure being a record with
\* success = false and an error message.
C2_NeverThrows ==
  /\ run.pc # "thrown"
  /\ run.pc = "returned" /\ ~run.ret.success => ~falsy(run.ret.error)

\* C3: batchExtractLogos completes for every input list and returns one
\* result per input URL, in input order; a failing site does not stop it.
C3_BatchCompletes ==
  /\ bpc # "rejected"
  /\ bpc \in {"call", "done"} => Len(results) = Len(urls)

\* C4: when the primary loop saved at least one artifact, no request goes to
\* a favicon provider and no "-logo-fallback" file is written, on the normal
\* path and on the handler path.
C4_FallbackOnlyWhenNothingSaved ==
  (Len(primarySaved(run)) > 0 \/ run.okLog # <<>>) =>
    /\ run.provLog = <<>>
    /\ run.provOk = <<>>
    /\ \A f \in run.written : ~includes(f, "-logo-fallback")
    /\ run.pass = 1

\* a finished run whose primary loop saved an artifact
C4_Witness ==
  /\ run.pc = "returned"
  /\ Len(primarySaved(run)) > 0
  /\ run.ret.count = Len(run.okLog)

\* the candidate list of a run without markup: the fixed paths on the origin
conventionalCandidates(url) ==
  [k \in 1..Len(commonPaths) |->
     [url |-> urlOrigin(url) \o commonPaths[k], priority |-> 10,
      source |-> "common-path", sizes |-> Undefined]]

\* C5: when the page fetch fails (the original and the protocol-swapped
\* attempt), the run does not fail there: the candidate list is exactly the 14
\* conventional paths on the origin, priority 10, source "common-path", in
\* listed order, and the run goes on into the download loop.
C5_PageFailureKeepsCommonPaths ==
  (run.pageOutcome = "failed" /\ urlProtocol(run.url) \in {"http:", "https:"}) =>
    \/ run.pc = "common"
    \/ /\ Len(run.foundLogos) = 14
       /\ run.foundLogos = conventionalCandidates(run.url)
       /\ Len(run.attempted) >= 1
       /\ run.attempted[1] = urlOrigin(run.url) \o "/favicon.svg"

\* a run whose page fetch failed and that succeeds through a conventional path
C5_Witness ==
  /\ run.pageOutcome = "failed"
  /\ run.pc = "returned"
  /\ run.ret.success
  /\ run.ret.source = "common-path"

\* C6: after any sequence of addCandidate calls of a run, no two entries of
\* the candidate list have the same normalized url.
C6_CandidateUrlsUnique ==
  /\ Cardinality({run.acc.candidates[k].url : k \in 1..Len(run.acc.candidates)})
       = Len(run.acc.candidates)
  /\ Cardinality({run.foundLogos[k].url : k \in 1..Len(run.foundLogos)})
       = Len(run.foundLogos)

\* a run whose document names /favicon.ico in a link element: the
\* conventional path of the same URL was offered later and not added again
C6_Witness ==
  /\ run.pc = "download"
  /\ run.htmlAvailable
  /\ \E k \in 1..Len(run.foundLogos) :
       /\ run.foundLogos[k].url = run.baseUrl \o "/favicon.ico"
       /\ run.foundLogos[k].source = "link"

\* C7: downloads are attempted in ascending priority, candidates of equal
\* priority in the order of their insertion; so an og:image candidate is
\* attempted before a ".logo img" candidate of another URL.
C7_AttemptsInPriorityOrder ==
  LET cands == run.acc.candidates
      \* position in the insertion order of the k-th attempted candidate
      pos == <<>> \o [k \in 1..Len(run.attempted) |->
                       CHOOSE m \in 1..Len(cands) : cands[m].url = run.attempted[k]]
  IN \A i, j \in 1..Len(run.attempted) :
       i < j =>
         \/ cands[pos[i]].priority < cands[pos[j]].priority
         \/ /\ cands[pos[i]].priority = cands[pos[j]].priority
            /\ pos[i] < pos[j]

\* a run that attempted a manifest icon before the header image inserted
\* ahead of it, and a meta image before a logo-section image
C7_Witness ==
  \/ \E i, j \in 1..Len(run.attempted) :
       /\ i < j
       /\ run.foundLogos[i].source = "manifest"
       /\ run.foundLogos[j].source = "header"
  \/ \E i, j \in 1..Len(run.attempted) :
       /\ i < j
       /\ run.foundLogos[i].source = "meta"
       /\ run.foundLogos[j].source = "logo-section"

\* C8: the saved artifacts of a run have pairwise distinct filenames; the k-th
\* artifact of the primary loop is named {domain}-logo (k = 1) or
\* {domain}-logo-{k} (k > 1) plus the extension; the ordinal advances on a
\* save only; the provider artifacts have distinct filenames.
C8_FilenamesDistinct ==
  LET ps == primarySaved(run)
      all == allSaved(run)
  IN /\ \A k \in 1..Len(ps) :
          ps[k].filename =
            run.domain \o (IF k = 1 THEN "-logo" ELSE "-logo-" \o ToString(k))
                       \o "." \o ps[k].format
     /\ run.index = Len(run.okLog) + 1
     /\ Len(ps) = Len(run.okLog)
     /\ Cardinality({all[k].filename : k \in 1..Len(all)}) = Len(all)

\* a finished run that saved two artifacts of one format with a skipped
\* candidate between them
C8_Witness ==
  /\ run.pc = "returned"
  /\ Len(run.okLog) = 2
  /\ run.okLog[2] > run.okLog[1] + 1
  /\ run.saved[1].format = run.saved[2].format

\* the primary download loop is over
loopOver(r) ==
  /\ r.pc \in {"provDownload", "provWrite", "catch", "handlerMkdir", "returned", "thrown"}
  /\ Len(r.foundLogos) > 0

\* C9: the primary loop attempts every candidate of the sorted list exactly
\* once, whatever happened to earlier candidates; at its end the saved
\* artifacts are the candidates whose download and write succeeded, in order.
C9_LoopAttemptsEveryCandidate ==
  /\ run.pc \in {"download", "codec", "write"} =>
       run.attempted = [k \in 1..run.ci |-> run.foundLogos[k].url]
  /\ loopOver(run) =>
       /\ run.attempted = [k \in 1..Len(run.foundLogos) |-> run.foundLogos[k].url]
       /\ \A k \in 1..(Len(run.okLog) - 1) : run.okLog[k] < run.okLog[k + 1]
       /\ [k \in 1..Len(primarySaved(run)) |-> primarySaved(run)[k].url]
            = [k \in 1..Len(run.okLog) |-> run.foundLogos[run.okLog[k]].url]

\* a finished loop that saved its first candidate and went on to failures
C9_Witness ==
  /\ loopOver(run)
  /\ run.okLog # <<>>
  /\ run.okLog[1] = 1
  /\ Len(run.attempted) > 2
  /\ Len(run.okLog) < Len(run.attempted)

\* the provider calls of pass p, and the provider icons pass p wrote
passCalls(r, p) ==
  LET l == SelectSeq(r.provLog, LAMBDA e : e.pass = p)
  IN [k \in 1..Len(l) |-> l[k].source]

passWrites(r, p) ==
  LET l == SelectSeq(r.provOk, LAMBDA e : e.pass = p)
  IN [k \in 1..Len(l) |-> l[k].source]

\* provider pass p is over
passOver(r, p) ==
  /\ passCalls(r, p) # <<>>
  /\ \/ r.pc \in {"returned", "thrown"}
     \/ p = 1 /\ r.pc \in {"catch", "handlerMkdir"}
     \/ p < r.pass

\* C10: a provider pass attempts both providers, the search-engine one first,
\* whatever the outcome of the first; the run returns success whenever one of
\* them succeeded, with exactly the providers that succeeded in that pass, in
\* that order, as its artifacts.
C10_ProviderPass ==
  /\ \A p \in {1, 2} :
       /\ passCalls(run, p) \in {<<>>, <<"google-favicons">>,
                                 <<"google-favicons", "duckduckgo-favicons">>}
       /\ passOver(run, p) =>
            passCalls(run, p) = <<"google-favicons", "duckduckgo-favicons">>
       /\ passOver(run, p) /\ passWrites(run, p) # <<>> =>
            /\ run.pc = "returned"
            /\ run.ret.success
            /\ [k \in 1..Len(run.ret.logos) |-> run.ret.logos[k].source]
                 = passWrites(run, p)
            /\ run.ret.count = Len(passWrites(run, p))
       /\ passWrites(run, p) \in {<<>>, <<"google-favicons">>, <<"duckduckgo-favicons">>,
                                  <<"google-favicons", "duckduckgo-favicons">>}

\* a run that returns the second provider's icon after the first provider failed
C10_Witness ==
  /\ run.pc = "returned"
  /\ run.ret.success
  /\ passCalls(run, 1) = <<"google-favicons", "duckduckgo-favicons">>
  /\ passWrites(run, 1) = <<"duckduckgo-favicons">>
  /\ run.ret.count = 1
  /\ run.ret.source = "duckduckgo-favicons"

\* the normal path saved nothing: the loop left saved empty and both providers
\* of the first pass were called without a write
firstPassEmpty(r) ==
  /\ r.okLog = <<>>
  /\ passCalls(r, 1) = <<"google-favicons", "duckduckgo-favicons">>
  /\ passWrites(r, 1) = <<>>
  /\ passOver(r, 1)

\* C11 as stated: a run whose primary loop saved nothing and whose two
\* providers failed in the normal pass returns only after the handler called
\* both providers a second time; it returns success = true when one of them
\* succeeded in that second pass and success = false when none did.
C11_SecondPassAlways ==
  (run.pc = "returned" /\ firstPassEmpty(run)) =>
    /\ passCalls(run, 2) = <<"google-favicons", "duckduckgo-favicons">>
    /\ run.ret.success <=> passWrites(run, 2) # <<>>

\* C11 amended: such a run returns after the handler called both providers a
\* second time, with success = true exactly when one of them succeeded in that
\* pass, unless fs.mkdir of the handler rejected: then it returns success =
\* false without any second provider call.
C11_SecondPassUnlessMkdirFails ==
  (run.pc = "returned" /\ firstPassEmpty(run)) =>
    \/ /\ run.handlerDir = "ok"
       /\ passCalls(run, 2) = <<"google-favicons", "duckduckgo-favicons">>
       /\ run.ret.success <=> passWrites(run, 2) # <<>>
    \/ /\ run.handlerDir = "failed"
       /\ passCalls(run, 2) = <<>>
       /\ ~run.ret.success

\* a run that failed both providers in the normal pass and returns the icon
\* the second provider gave to the handler's pass
C11_Witness ==
  /\ run.pc = "returned"
  /\ firstPassEmpty(run)
  /\ run.handlerDir = "ok"
  /\ run.ret.success
  /\ passWrites(run, 2) = <<"duckduckgo-favicons">>

\* the requests downloadWithFallback(res, ref) may have made so far: the
\* resource with the referer, the resource with the referer's origin, the
\* resource under the other of http and https with the referer's origin
dlRequestsAsSpecified(reqs, res, ref) ==
  LET org == IF urlParses(ref) THEN urlOrigin(ref) ELSE ref
  IN /\ Len(reqs) \in 1..3
     /\ reqs[1] = [url |-> res, referer |-> ref]
     /\ Len(reqs) >= 2 => reqs[2] = [url |-> res, referer |-> org]
     /\ Len(reqs) = 3 =>
          /\ urlProtocol(res) \in {"http:", "https:"}
          /\ reqs[3].referer = org
          /\ urlProtocol(reqs[3].url)
               = (IF urlProtocol(res) = "https:" THEN "http:" ELSE "https:")
          /\ urlHostname(reqs[3].url) = urlHostname(res)
          /\ urlPath(reqs[3].url) = urlPath(res)

C13_PageFetchAttempts ==
  /\ run.pc \in {"pageFetch", "collect"} =>
       /\ Len(run.reqs) = run.attempt
       /\ run.attempt \in 1..2
       /\ run.reqs[1] = [url |-> run.url, referer |-> urlOrigin(run.url)]
       /\ run.attempt = 2 =>
            /\ urlProtocol(run.url) \in {"http:", "https:"}
            /\ urlProtocol(run.reqs[2].url)
                 = (IF urlProtocol(run.url) = "https:" THEN "http:" ELSE "https:")
            /\ urlHostname(run.reqs[2].url) = urlHostname(run.url)
            /\ run.reqs[2].referer = run.reqs[1].referer
  /\ run.pc = "collect" => run.pageOutcome = "ok" /\ run.htmlAvailable
  /\ run.pageOutcome = "failed" =>
       /\ run.pageFail.thrown = 1
       /\ Len(run.pageFail.reqs)
            = (IF urlProtocol(run.url) \in {"http:", "https:"} THEN 2 ELSE 1)
       /\ run.pageFail.reqs[1].url = run.url
       /\ ~run.htmlAvailable
       /\ run.doc = NoDoc
       /\ run.pc = "common" \/ Len(run.attempted) >= 1
       /\ run.error \in {Undefined, "Failed to download any logos"}

\* a run whose page fetch threw after the request and its retry, and that
\* returns an artifact all the same
C13_Witness ==
  /\ run.pc = "returned"
  /\ run.pageOutcome = "failed"
  /\ Len(run.pageFail.reqs) = 2
  /\ run.pageFail.reqs[2].url = "http://www.a.co/p"
  /\ run.ret.success

\* what the discovery rules of a run hand to addCandidate, in the order of
\* the calls: meta, link, header, logo sections, alt text, manifest icons,
\* conventional paths
offersOf(doc, body, baseUrl) ==
  LET tag(items, priority, source) ==
        [k \in 1..Len(items) |->
           [src |-> items[k].src, priority |-> priority, source |-> source]]
  IN tag(doc.metas, 1, "meta")
     \o tag(doc.links, 2, "link")
     \o tag(SelectSeq(doc.imgs, LAMBDA e : e.inHeader /\ (e.inLogo \/ e.altLogo)),
            6, "header")
     \o tag(SelectSeq(doc.imgs, LAMBDA e : e.inLogo), 7, "logo-section")
     \o tag(SelectSeq(doc.imgs, LAMBDA e : e.altLogo), 8, "img[alt*=logo]")
     \o tag(IF body.isArray THEN body.icons ELSE <<>>, 3, "manifest")
     \o [k \in 1..Len(commonPaths) |->
          [src |-> baseUrl \o commonPaths[k], priority |-> 10,
           source |-> "common-path"]]

\* the candidate list is complete and the download loop has not yet moved
discoveryDone(r) == r.pc = "download" /\ r.ci = 1 /\ r.attempt = 1

\* C14: a candidate keeps the priority and the source of the first rule, in
\* insertion order, that offered its normalized URL; a later offer of the same
\* URL changes nothing, whatever its priority. So an image found in the
\* header (6) and again in the manifest (3) is kept with priority 6.
C14_FirstSeenWins ==
  discoveryDone(run) =>
    \E body \in ManifestBodies :
      LET offers == offersOf(run.doc, body, run.baseUrl)
          norm == <<>> \o [k \in 1..Len(offers) |->
                             IF falsy(offers[k].src) THEN Null
                             ELSE normalizeUrl(offers[k].src, run.baseUrl)]
          taken == {k \in 1..Len(offers) : norm[k] # Null /\ isValidImageUrl(norm[k])}
      IN /\ {run.foundLogos[i].url : i \in 1..Len(run.foundLogos)}
              = {norm[k] : k \in taken}
         /\ \A i \in 1..Len(run.foundLogos) :
              LET first == CHOOSE k \in taken :
                             /\ norm[k] = run.foundLogos[i].url
                             /\ \A m \in taken : norm[m] = norm[k] => k <= m
              IN /\ run.foundLogos[i].priority = offers[first].priority
                 /\ run.foundLogos[i].source = offers[first].source
         /\ \A i \in 1..Len(run.foundLogos) :
              (/\ \E k \in taken : /\ norm[k] = run.foundLogos[i].url
                                    /\ offers[k].source = "header"
               /\ \E k \in taken : /\ norm[k] = run.foundLogos[i].url
                                    /\ offers[k].source = "manifest"
               /\ ~\E k \in taken : /\ norm[k] = run.foundLogos[i].url
                                     /\ offers[k].source \in {"meta", "link"})
              => run.foundLogos[i].priority = 6

\* the candidate list of a page whose header image is also a manifest icon:
\* the image is kept as a header candidate behind the other manifest icon
C14_Witness ==
  /\ discoveryDone(run)
  /\ \E i, j \in 1..Len(run.foundLogos) :
       /\ run.foundLogos[i].source = "manifest"
       /\ run.foundLogos[i].url = run.baseUrl \o "/icon-512.png"
       /\ run.foundLogos[j].url = run.baseUrl \o "/img/logo.png"
       /\ run.foundLogos[j].source = "header"
       /\ run.foundLogos[j].priority = 6
       /\ i < j

\* the artifact the loop records for its current candidate
artifactOf(r) ==
  [url |-> r.foundLogos[r.ci].url, localPath |-> pathJoin(outputDir, r.filename),
   filename |-> r.filename, format |-> r.format,
   source |-> r.foundLogos[r.ci].source, contentType |-> r.resp.contentType]

\* the step records the current candidate: artifact appended, ordinal advanced
candidateRecorded ==
  /\ run'.saved = Append(run.saved, artifactOf(run))
  /\ run'.index = run.index + 1
  /\ run'.okLog = Append(run.okLog, run.ci)
  /\ run'.written = run.written \cup {run.filename}

\* C15: for a png, jpg or webp candidate a codec failure does not skip the
\* candidate: the step that ends the codec either records the artifact or
\* leaves the downloaded bytes to be written to the same path; the verbatim
\* write then records the artifact and advances the ordinal, and the candidate
\* is skipped only if that write fails too.
C15_CodecFailureKeepsCandidate ==
  [][ /\ run.pc = "codec" =>
           /\ run.format \in {"png", "jpg", "jpeg", "webp"}
           /\ \/ candidateRecorded
              \/ /\ run'.pc = "write"
                 /\ run'.sharpError
                 /\ run'.ci = run.ci
                 /\ run'.filename = run.filename
                 /\ run'.resp = run.resp
                 /\ run'.saved = run.saved
                 /\ run'.index = run.index
      /\ (run.pc = "write" /\ run.sharpError) =>
           \/ candidateRecorded
           \/ /\ run'.saved = run.saved
              /\ run'.index = run.index
              /\ run'.okLog = run.okLog
              /\ run'.written = run.written
              /\ run'.pc # "write"
              /\ run.ci \in 1..Len(run'.attempted)
    ]_vars

\* a finished run whose last candidate was saved by the verbatim write after
\* the codec failed on it
C15_Witness ==
  /\ run.pc = "returned"
  /\ run.sharpError
  /\ run.okLog # <<>>
  /\ run.okLog[Len(run.okLog)] = run.ci
  /\ run.saved[Len(run.saved)].url = run.foundLogos[run.ci].url
  /\ run.saved[Len(run.saved)].format \in {"png", "jpg", "jpeg", "webp"}

\* the artifacts of the download loop among the paths a call returned
loopPaths(o) == SelectSeq(o.paths, LAMBDA p : ~includes(p, "-logo-fallback"))

\* the extension of a path
RECURSIVE extOf(_)
extOf(p) ==
  IF includes(p, ".") THEN extOf(SubSeq(p, indexOf(p, ".") + 1, Len(p))) ELSE p

\* C16: two calls for the same site and output directory, one after the
\* other or interleaved, name the same path for their first saved artifact of
\* a given format, and both write it: the file then holds the bytes of the
\* call that wrote last, whatever was there, while both results name it.
C16_SamePathLastWriteWins ==
  /\ \A p \in DOMAIN disk :
       /\ disk[p].bytes = disk[p].writers[Len(disk[p].writers)]
       /\ disk[p].bytes \in {1, 2}
  /\ \A i, j \in 1..Len(finished) :
       LET a == loopPaths(finished[i])
           b == loopPaths(finished[j])
       IN (i # j /\ a # <<>> /\ b # <<>> /\ extOf(a[1]) = extOf(b[1])) =>
            /\ a[1] = b[1]
            /\ a[1] = pathJoin(outputDir,
                                finished[i].domain \o "-logo." \o extOf(a[1]))
            /\ a[1] \in DOMAIN disk
            /\ {finished[i].id, finished[j].id}
                 \subseteq {disk[a[1]].writers[k] : k \in 1..Len(disk[a[1]].writers)}

\* both calls have returned a record whose primary artifact is the same
\* path; the call that returned first wrote the file first and the other
\* replaced it
C16_Witness ==
  /\ Len(finished) = 2
  /\ loopPaths(finished[1]) # <<>>
  /\ loopPaths(finished[2]) # <<>>
  /\ finished[1].paths[1] = finished[2].paths[1]
  /\ disk[finished[1].paths[1]].writers = <<finished[1].id, finished[2].id>>
  /\ disk[finished[1].paths[1]].bytes = finished[2].id
  /\ finished[1].id = 2

\* C17: within one extractLogo call and across the sites of one batch call at
\* most one HTTP request is outstanding at any time: a request is sent only
\* in the step in which the one before it was answered or failed, and the call
\* for a site starts only after the call for the site before it has returned.
C17_OneRequestAtATime ==
  /\ run.inflight \in {0, 1}
  /\ run.inflight = 1 <=> run.pc \in {"pageFetch", "manifest", "download", "provDownload"}
  /\ run.inflight = 1 => Len(run.reqs) >= 1
  /\ bpc # "await" => run.pc = "idle" /\ run.inflight = 0
  /\ bpc = "await" => Len(urls) = Len(results) + 1 /\ run.url = urls[Len(urls)]
  /\ bpc \in {"call", "delay", "done"} => Len(urls) = Len(results)

\* the call for the second site of a batch has its third candidate request
\* outstanding; the call for the first site has returned
C17_Witness ==
  /\ bpc = "await"
  /\ Len(urls) = 2
  /\ Len(results) = 1
  /\ run.pc = "download"
  /\ run.ci = 3
  /\ run.inflight = 1

\* C18: isValidImageUrl(u) is true exactly when u, compared without regard to
\* case, contains one of the listed extensions or "logo" or "icon"; so a
\* reference with "LOGO" or "Icon" and no extension is accepted, and
\* addCandidate keeps it.
C18_KeywordsCaseInsensitive ==
  LET u == urls[1]
      low == toLowerCase(u)
      accepted == \/ \E k \in 1..Len(imageExtensions) : includes(low, imageExtensions[k])
                  \/ includes(low, "logo")
                  \/ includes(low, "icon")
  IN /\ results # <<>> => results[1] = accepted
     /\ bpc = "added" => (accepted <=> Len(run.acc.candidates) = 1)

\* C19, the bounds: a page fetch makes at most 2 requests, a manifest fetch 1,
\* a candidate at most 3, a provider call at most 3; there are at most two
\* provider passes of two calls each, no candidate is handed to
\* downloadWithFallback twice and no provider twice in a pass.
C19_RequestBounds ==
  /\ run.pc = "pageFetch" => Len(run.reqs) \in 1..2
  /\ Len(run.pageFail.reqs) <= 2
  /\ run.pc = "manifest" => Len(run.reqs) = 1
  /\ run.pc \in {"download", "provDownload"} => Len(run.reqs) \in 1..3
  /\ Len(run.lastFail.reqs) <= 3
  /\ Len(run.attempted) <= Len(run.foundLogos)
  /\ Cardinality({run.attempted[k] : k \in 1..Len(run.attempted)}) = Len(run.attempted)
  /\ run.pass \in {1, 2}
  /\ Len(run.provLog) <= 4
  /\ Cardinality({run.provLog[k] : k \in 1..Len(run.provLog)}) = Len(run.provLog)

\* how far a call has come: its phase, the candidate or provider it is at, and
\* the request or file operation it awaits there
progress(r) ==
  LET provider == r.pc \in {"provDownload", "provWrite"}
      phase == CASE r.pc = "idle" -> 0
                 [] r.pc = "mkdir" -> 1
                 [] r.pc = "pageFetch" -> 2
                 [] r.pc = "collect" -> 3
                 [] r.pc = "manifest" -> 4
                 [] r.pc = "common" -> 5
                 [] r.pc \in {"download", "codec", "write"} -> 6
                 [] provider /\ r.pass = 1 -> 7
                 [] r.pc = "catch" -> 8
                 [] r.pc = "handlerMkdir" -> 9
                 [] provider /\ r.pass = 2 -> 10
                 [] OTHER -> 11
      at == IF r.pc \in {"download", "codec", "write"} THEN r.ci
            ELSE IF provider THEN r.pi ELSE 0
      step == CASE r.pc \in {"pageFetch", "download", "provDownload"} -> r.attempt
                [] r.pc \in {"codec", "provWrite"} -> 4
                [] r.pc = "write" -> 5
                [] OTHER -> 0
  IN phase * 10000 + at * 100 + step

\* C19, the progress: every step of a call moves it forward in the order of
\* progress, which has finitely many values; so a call whose awaited
\* operations all complete or fail comes to an end.
C19_Progress ==
  [][(run.pc # "idle" /\ run'.pc # "idle") => progress(run') > progress(run)]_vars

\* C19: every run of extractLogo terminates in a result, provided each
\* request and each file operation completes or fails: the requests stay
\* within the bounds, and a call that has come to its end has returned a
\* record.
C19_TerminatesInResult ==
  /\ C19_RequestBounds
  /\ run.pc \notin {"idle", "mkdir", "pageFetch", "collect", "manifest", "common",
                     "download", "codec", "write", "provDownload", "provWrite",
                     "catch", "handlerMkdir"}
       => run.pc = "returned"

\* the artifacts the run wrote and recorded, from its history: where each came
\* from and under which name it was written
recordedOf(r) ==
  [k \in 1..Len(r.okLog) |-> r.foundLogos[r.okLog[k]].url]
    \o [k \in 1..Len(r.provOk) |->
          SelectSeq(providerCandidates(r.domain),
                    LAMBDA c : c.source = r.provOk[k].source)[1].url]

\* C20: no recorded artifact is dropped. When control is in the top-level
\* handler, the loop and the first provider pass have saved nothing; and a run
\* that wrote and recorded artifacts returns all of them, in order, as the
\* record's list, with count the length of the list and the primary fields
\* those of its first entry.
C20_NoArtifactDropped ==
  /\ (run.pc \in {"catch", "handlerMkdir"} \/ run.pass = 2) =>
       /\ run.saved = <<>>
       /\ run.okLog = <<>>
       /\ passWrites(run, 1) = <<>>
  /\ run.pc = "thrown" => run.okLog = <<>> /\ run.provOk = <<>> /\ run.written = {}
  /\ (run.pc = "returned" /\ (run.okLog # <<>> \/ run.provOk # <<>>)) =>
       LET logos == run.ret.logos
       IN /\ run.ret.success
          /\ logos = allSaved(run)
          /\ [k \in 1..Len(logos) |-> logos[k].url] = recordedOf(run)
          /\ {logos[k].filename : k \in 1..Len(logos)} = run.written
          /\ run.ret.count = Len(logos)
          /\ run.ret.logoUrl = logos[1].url
          /\ run.ret.localPath = logos[1].localPath
          /\ run.ret.filename = logos[1].filename
          /\ run.ret.format = logos[1].format
          /\ run.ret.source = logos[1].source
          /\ run.ret.contentType = logos[1].contentType

\* a run that went through the handler and returns the two provider icons the
\* handler's pass wrote
C20_Witness ==
  /\ run.pc = "returned"
  /\ run.pass = 2
  /\ Len(run.provOk) = 2
  /\ run.ret.count = 2
  /\ run.ret.source = "google-favicons"

====
